---- MODULE Spec2Model ----
(***************************************************************************)
(* jmonticelli::ring_buffer<ValueType, Allocator>                          *)
(* (include/jmonticelli/ring_buffer.hh) as a state machine.                *)
(*                                                                         *)
(* A container object is a record of its data members.  Pointers into the  *)
(* storage region are kept as offsets from buffer_ (buffer_ itself names   *)
(* the allocation, begin_ptr_ = 0 means begin_ptr_ == buffer_).  The heap  *)
(* maps every allocation to its slots; a slot holds the bits stored in it  *)
(* (val) and whether an element is alive there (live).  Storage obtained   *)
(* from the allocator holds arbitrary bits, and so does a slot whose       *)
(* element has been destroyed.                                             *)
(***************************************************************************)
EXTENDS Integers, Sequences, FiniteSets

\* ------------------------------------------------------------------ bounds
MaxCapacity == 3
\* largest capacity of a buffer that is copied
MaxCopyCapacity == 2
\* largest capacity of a buffer that is walked with iterators
MaxIterCapacity == 2
\* largest capacity of a buffer that is compared with a fresh one
MaxTwinCapacity == 2
\* width of std::size_t in the model
SizeBits == 4

SizeMod == 2 ^ SizeBits
SIZE_MAX == SizeMod - 1
\* element values; two are enough to tell any two positions apart
Values == {1, 2}
Indexes == (0 .. MaxCapacity) \cup {SIZE_MAX}
MaxPushes == MaxCapacity + 2
\* steps after which a traversal is given up as not terminating
MaxTraversal == MaxCapacity + 2

Min(x, y) == IF x <= y THEN x ELSE y

\* the std::runtime_error thrown by assert_idx, told apart from every element
\* value; and the result of a void / absent value
BoundsError == -1
Void == "void"
\* an object that has not been constructed: buffer_{nullptr}
NoObject == [buffer_ |-> "nullptr"]
Constructed(self) == self.buffer_ # "nullptr"
NoHistory == <<0>>
\* no iterator has been obtained
NoIterator == [idx_ |-> -1]

VARIABLES
    a,       \* the ring_buffer under test
    b,       \* a ring_buffer copy-constructed from a, or NoObject
    heap,    \* allocation -> slots
    op,      \* the last call: its name, argument and result
    old,     \* size, cursors and logical contents of a when that call started
    pushed,  \* values given to push_back since construction, while no other mutator ran
    ref,     \* reference deque: what the buffer should hold, while the calls made are ones it follows
    dtors,   \* element destructor runs of that call, in order: slot, and was an element alive there
    it,      \* an iterator into a, or NoIterator
    twin     \* what the same call returned on b, when it is made on both buffers

vars == <<a, b, heap, op, old, pushed, ref, dtors, it, twin>>

\* ------------------------------------------------------------- storage
Slots(cap) == 0 .. (cap - 1)
\* a slot with no element in it (never written, or its element destroyed)
Dead(bits) == [val |-> bits, live |-> FALSE]
Live(v) == [val |-> v, live |-> TRUE]

\* Allocator::allocate(n): n slots of raw storage holding the bits in `bits`
allocate(n, bits) == [p \in Slots(n) |-> Dead(bits[p])]

\* the heap during a call: the storage, and the destructor runs of the call
Logged(h) == [A |-> h.A, B |-> h.B, dtors |-> <<>>]
Storage(h) == [A |-> h.A, B |-> h.B]

\* ptr->~ValueType_(): the element in the slot is gone, bits are what it leaves
destroy(self, h, ptr, bits) ==
    [h EXCEPT ![self.buffer_][ptr] = Dead(bits),
              !.dtors = Append(@, [ptr |-> ptr, live |-> h[self.buffer_][ptr].live])]

\* *ptr = value
assign(self, h, ptr, v) ==
    [h EXCEPT ![self.buffer_][ptr] = Live(v)]

\* ---------------------------------------------------------- construction
\* a constructor without the SIZE_MAX / 2 limit
ctor_throws_only_zero(max_capacity) == max_capacity = 0

ctor_throws(max_capacity) ==
    \/ max_capacity = 0
    \/ max_capacity >= SIZE_MAX \div 2

\* a constructor that leaves end_ptr_ on the last slot
ring_buffer_end_at_last(max_capacity, region) ==
    [ max_capacity_ |-> max_capacity,
      current_size_ |-> 0,
      buffer_       |-> region,
      buffer_end_   |-> max_capacity - 1,
      begin_ptr_    |-> 0,
      end_ptr_      |-> max_capacity - 1 ]

ring_buffer(max_capacity, region) ==
    [ max_capacity_ |-> max_capacity,
      current_size_ |-> 0,
      buffer_       |-> region,
      buffer_end_   |-> max_capacity - 1,
      begin_ptr_    |-> 0,
      end_ptr_      |-> 0 ]

\* ------------------------------------------------------------ accessors
size(self) == self.current_size_

capacity(self) == self.max_capacity_

assert_idx_off_by_one(self, idx) == idx > self.current_size_

\* TRUE when assert_idx throws
assert_idx(self, idx) == idx >= self.current_size_

unchecked_ptr_from_idx(self, idx) ==
    LET begin_diff == self.begin_ptr_
        buffer_idx == ((begin_diff + idx) % SizeMod) % self.max_capacity_
    IN  buffer_idx

at(self, h, idx) ==
    IF assert_idx(self, idx)
    THEN BoundsError
    ELSE h[self.buffer_][unchecked_ptr_from_idx(self, idx)].val

subscript(self, h, idx) == at(self, h, idx)

front(self, h) == at(self, h, 0)

back_off_by_one(self, h) == at(self, h, self.current_size_)

back(self, h) ==
    at(self, h, IF self.current_size_ = 0 THEN 0 ELSE self.current_size_ - 1)

\* ------------------------------------------------------------ iterators
\* internal_Iterator: container_ is the buffer the operators are given, idx_
\* the logical index
internal_Iterator(idx) == [idx_ |-> idx]

begin(self) == internal_Iterator(0)

cbegin(self) == internal_Iterator(0)

end(self) == internal_Iterator(self.current_size_)

cend(self) == internal_Iterator(self.current_size_)

operator_eq(x, y) == x.idx_ = y.idx_

operator_neq(x, y) == ~operator_eq(x, y)

operator_incr_unclamped(self, x) ==
    [x EXCEPT !.idx_ = (x.idx_ + 1) % SizeMod]

operator_incr_stuck(self, x) == x

\* ++it
operator_incr(self, x) ==
    [x EXCEPT !.idx_ = Min(size(self), (x.idx_ + 1) % SizeMod)]

\* --it
operator_decr(self, x) ==
    IF x.idx_ <= 0 THEN x ELSE [x EXCEPT !.idx_ = x.idx_ - 1]

operator_star_unchecked(self, h, x) ==
    h[self.buffer_][unchecked_ptr_from_idx(self, x.idx_)].val

\* *it
operator_star(self, h, x) == at(self, h, x.idx_)

\* it.operator->(): the pointer, as the slot it points to
operator_arrow(self, x) == unchecked_ptr_from_idx(self, x.idx_)

\* for (it = first; it != last; ++it) out.push_back(*it), cut off after
\* `fuel` steps
RECURSIVE copy_range(_, _, _, _, _, _)
copy_range(self, h, first, last, out, fuel) ==
    IF ~operator_neq(first, last)
    THEN [terminated |-> TRUE, out |-> out]
    ELSE IF fuel = 0
         THEN [terminated |-> FALSE, out |-> out]
         ELSE copy_range(self, h, operator_incr(self, first), last,
                         Append(out, operator_star(self, h, first)), fuel - 1)

\* ------------------------------------------------------ cursor movement
advance_ptr_left(self, ptr) ==
    IF ptr = 0 THEN self.buffer_end_ ELSE ptr - 1

\* a step right that walks off the last slot
advance_ptr_right_unwrapped(self, ptr) == ptr + 1

advance_ptr_right(self, ptr) ==
    IF ptr = self.buffer_end_ THEN 0 ELSE ptr + 1

is_destructible == TRUE

remove_advance_left(self, h, ptr, g) ==
    [ ptr |-> advance_ptr_left(self, ptr),
      h   |-> IF is_destructible THEN destroy(self, h, ptr, g) ELSE h ]

remove_advance_right(self, h, ptr, g) ==
    [ ptr |-> advance_ptr_right(self, ptr),
      h   |-> IF is_destructible THEN destroy(self, h, ptr, g) ELSE h ]

\* ------------------------------------------------------------ insertion
add_back_unbounded(self, h, g) ==
    LET s1 == IF self.current_size_ > 0
              THEN [self EXCEPT !.end_ptr_ = advance_ptr_right(self, self.end_ptr_)]
              ELSE self
    IN  [ self |-> [s1 EXCEPT !.current_size_ = (self.current_size_ + 1) % SizeMod],
          h |-> h ]

add_back_keeps_begin(self, h, g) ==
    LET next_size == Min((self.current_size_ + 1) % SizeMod, self.max_capacity_)
        s1 == IF self.current_size_ > 0
              THEN [self EXCEPT !.end_ptr_ = advance_ptr_right(self, self.end_ptr_)]
              ELSE self
    IN  [ self |-> [s1 EXCEPT !.current_size_ = next_size], h |-> h ]

add_back_uninitialized_element(self, h, g) ==
    LET next_size == Min((self.current_size_ + 1) % SizeMod, self.max_capacity_)
        s1 == IF self.current_size_ > 0
              THEN [self EXCEPT !.end_ptr_ = advance_ptr_right(self, self.end_ptr_)]
              ELSE self
    IN  IF s1.current_size_ = next_size
        THEN LET r == remove_advance_right(s1, h, s1.begin_ptr_, g)
             IN  [ self |-> [s1 EXCEPT !.begin_ptr_ = r.ptr], h |-> r.h ]
        ELSE [ self |-> [s1 EXCEPT !.current_size_ = next_size], h |-> h ]

add_front_overwrites(self, h, g) ==
    LET next_size == Min((self.current_size_ + 1) % SizeMod, self.max_capacity_)
    IN  IF self.current_size_ = next_size
        THEN LET r == remove_advance_left(self, h, self.end_ptr_, g)
             IN  [ self |-> [self EXCEPT !.end_ptr_ = r.ptr], h |-> r.h ]
        ELSE [ self |-> [self EXCEPT !.current_size_ = next_size], h |-> h ]

add_front_uninitialized_element(self, h, g) ==
    LET next_size == Min((self.current_size_ + 1) % SizeMod, self.max_capacity_)
        s1 == IF self.current_size_ > 0
              THEN [self EXCEPT !.begin_ptr_ = advance_ptr_left(self, self.begin_ptr_)]
              ELSE self
    IN  IF s1.current_size_ = next_size
        THEN LET r == remove_advance_left(s1, h, s1.end_ptr_, g)
             IN  [ self |-> [s1 EXCEPT !.end_ptr_ = r.ptr], h |-> r.h ]
        ELSE [ self |-> [s1 EXCEPT !.current_size_ = next_size], h |-> h ]

push_back(self, h, v, g) ==
    LET r == add_back_uninitialized_element(self, h, g)
    IN  [ self |-> r.self, h |-> assign(r.self, r.h, r.self.end_ptr_, v) ]

emplace_back(self, h, v, g) ==
    LET r == add_back_uninitialized_element(self, h, g)
    IN  [ self |-> r.self, h |-> assign(r.self, r.h, r.self.end_ptr_, v) ]

push_front(self, h, v, g) ==
    LET r == add_front_uninitialized_element(self, h, g)
    IN  [ self |-> r.self, h |-> assign(r.self, r.h, r.self.begin_ptr_, v) ]

emplace_front(self, h, v, g) ==
    LET r == add_front_uninitialized_element(self, h, g)
    IN  [ self |-> r.self, h |-> assign(r.self, r.h, r.self.begin_ptr_, v) ]

\* -------------------------------------------------------------- removal
\* The source calls remove_advance_right() without its argument; the pointer
\* it assigns to, begin_ptr_, is the one it advances.
pop_front(self, h, g) ==
    IF self.current_size_ = 0
    THEN [ self |-> self, h |-> h, ret |-> FALSE ]
    ELSE LET r == remove_advance_right(self, h, self.begin_ptr_, g)
         IN  [ self |-> [self EXCEPT !.begin_ptr_ = r.ptr,
                                     !.current_size_ = (self.current_size_ - 1) % SizeMod],
               h |-> r.h, ret |-> TRUE ]

pop_back_unguarded(self, h, g) ==
    LET r == remove_advance_left(self, h, self.end_ptr_, g)
    IN  [ self |-> [self EXCEPT !.end_ptr_ = r.ptr,
                                !.current_size_ = (self.current_size_ - 1) % SizeMod],
          h |-> r.h, ret |-> TRUE ]

\* Likewise remove_advance_left(), assigned to end_ptr_.
pop_back(self, h, g) ==
    IF self.current_size_ = 0
    THEN [ self |-> self, h |-> h, ret |-> FALSE ]
    ELSE LET r == remove_advance_left(self, h, self.end_ptr_, g)
         IN  [ self |-> [self EXCEPT !.end_ptr_ = r.ptr,
                                     !.current_size_ = (self.current_size_ - 1) % SizeMod],
               h |-> r.h, ret |-> TRUE ]

\* for (it = begin(); it != end(); ++it) it->~ValueType();
RECURSIVE remove_elements_from(_, _, _, _)
remove_elements_from(self, h, idx, g) ==
    IF idx = self.current_size_
    THEN h
    ELSE remove_elements_from(
             self,
             destroy(self, h, unchecked_ptr_from_idx(self, idx), g[idx]),
             Min(size(self), (idx + 1) % SizeMod),
             g)

remove_elements(self, h, g) ==
    IF is_destructible THEN remove_elements_from(self, h, 0, g) ELSE h

\* a clear that forgets to rewind the cursors
clear_keeps_cursors(self, h, g) ==
    [ self |-> [self EXCEPT !.current_size_ = 0],
      h |-> remove_elements(self, h, g) ]

clear(self, h, g) ==
    [ self |-> [self EXCEPT !.current_size_ = 0, !.begin_ptr_ = 0, !.end_ptr_ = 0],
      h |-> remove_elements(self, h, g) ]

\* ------------------------------------------------------------ destruction
\* Allocator::deallocate(buffer_, max_capacity_): the region has no slots left
deallocate(self, h) == [h EXCEPT ![self.buffer_] = <<>>]

\* ~ring_buffer(): the storage is given back, nothing else
ring_buffer_dtor(self, h) == deallocate(self, h)

\* ------------------------------------------------------ copy construction
\* std::copy(other.cbegin(), other.cend(), std::back_inserter(*this)): the
\* const iterator compares by index, steps with min(size, idx + 1) and
\* dereferences through other.at(idx)
RECURSIVE copy_from(_, _, _, _, _)
copy_from(other, self, h, idx, g) ==
    IF idx = other.current_size_
    THEN [ self |-> self, h |-> h ]
    ELSE LET r == push_back(self, h, at(other, h, idx), g)
         IN  copy_from(other, r.self, r.h,
                       Min(size(other), (idx + 1) % SizeMod), g)

\* a copy that shares the source's storage
ring_buffer_copy_shallow(other, h, region, bits, g) ==
    [ self |-> other, h |-> h ]

ring_buffer_copy(other, h, region, bits, g) ==
    copy_from(other,
              ring_buffer(other.max_capacity_, region),
              [h EXCEPT ![region] = allocate(other.max_capacity_, bits)], 0, g)

\* ------------------------------------------------------- logical contents
\* at(0), ..., at(size - 1)
Contents(self, h) == [i \in 1 .. self.current_size_ |-> at(self, h, i - 1)]

\* capacity 10: push_front(2i), push_back(2i + 1) for i = 0 .. 4
RECURSIVE InterleaveFrom(_, _, _)
InterleaveFrom(self, h, i) ==
    IF i = 5
    THEN Contents(self, h)
    ELSE LET f == push_front(self, h, 2 * i, 0)
             k == push_back(f.self, f.h, 2 * i + 1, 0)
         IN  InterleaveFrom(k.self, k.h, i + 1)

Interleaved10 ==
    InterleaveFrom(ring_buffer(10, "A"),
                   Logged([A |-> allocate(10, [p \in Slots(10) |-> 0]), B |-> <<>>]), 0)

\* ring_buffer<TestClass> rb(2) and three emplace_back calls: the element
\* destructor runs of the three calls together
EmplacedThrice ==
    LET h0 == Logged([A |-> allocate(2, [p \in Slots(2) |-> 0]), B |-> <<>>])
        r1 == emplace_back(ring_buffer(2, "A"), h0, 1, 0)
        r2 == emplace_back(r1.self, r1.h, 1, 0)
        r3 == emplace_back(r2.self, r2.h, 1, 0)
    IN  r3.h.dtors

\* ------------------------------------------------------ reference deque
RefPushBack(d, cap, v) ==
    IF Len(d) = cap THEN Append(Tail(d), v) ELSE Append(d, v)

RefPushFront(d, cap, v) ==
    IF Len(d) = cap THEN <<v>> \o SubSeq(d, 1, cap - 1) ELSE <<v>> \o d

\* --------------------------------------------------------------- states
Garbage(cap) == [Slots(cap) -> Values]

\* the bits a destructor leaves behind, when the call runs one
DtorBits(runs) == IF runs /\ is_destructible THEN Values ELSE {1}

Full(self) == self.current_size_ = self.max_capacity_

Snapshot ==
    [ size       |-> a.current_size_,
      begin_ptr_ |-> a.begin_ptr_,
      end_ptr_   |-> a.end_ptr_,
      contents   |-> Contents(a, heap) ]

Init ==
    \E cap \in 0 .. MaxCapacity :
      \E bits \in Garbage(cap) :
        /\ ~ctor_throws(cap)
        /\ a = ring_buffer(cap, "A")
        /\ heap = [A |-> allocate(cap, bits), B |-> <<>>]
        /\ b = NoObject
        /\ op = [name |-> "ring_buffer", arg |-> cap, ret |-> Void]
        /\ old = [size |-> 0, begin_ptr_ |-> 0, end_ptr_ |-> 0, contents |-> <<>>]
        /\ pushed = <<>>
        /\ ref = <<>>
        /\ dtors = <<>>
        /\ it = NoIterator
        /\ twin = Void

Called(name, arg, ret) ==
    /\ op' = [name |-> name, arg |-> arg, ret |-> ret]
    /\ old' = Snapshot

PushBack ==
    \E v \in Values, g \in DtorBits(Full(a)) :
        \E r \in {push_back(a, Logged(heap), v, g)} :
            /\ a' = r.self
            /\ heap' = Storage(r.h)
            /\ dtors' = r.h.dtors
            /\ Called("push_back", v, Void)
            /\ pushed' = IF pushed # NoHistory /\ Len(pushed) < MaxPushes
                         THEN Append(pushed, v) ELSE NoHistory
            /\ ref' = IF ref = NoHistory THEN NoHistory
                      ELSE RefPushBack(ref, a.max_capacity_, v)
            /\ UNCHANGED <<b, it, twin>>

EmplaceBack ==
    \E v \in Values, g \in DtorBits(Full(a)) :
        \E r \in {emplace_back(a, Logged(heap), v, g)} :
            /\ a' = r.self
            /\ heap' = Storage(r.h)
            /\ dtors' = r.h.dtors
            /\ Called("emplace_back", v, Void)
            /\ pushed' = NoHistory
            /\ ref' = IF ref = NoHistory THEN NoHistory
                      ELSE RefPushBack(ref, a.max_capacity_, v)
            /\ UNCHANGED <<b, it, twin>>

PushFront ==
    \E v \in Values, g \in DtorBits(Full(a)) :
        \E r \in {push_front(a, Logged(heap), v, g)} :
            /\ a' = r.self
            /\ heap' = Storage(r.h)
            /\ dtors' = r.h.dtors
            /\ Called("push_front", v, Void)
            /\ pushed' = NoHistory
            /\ ref' = IF ref = NoHistory THEN NoHistory
                      ELSE RefPushFront(ref, a.max_capacity_, v)
            /\ UNCHANGED <<b, it, twin>>

EmplaceFront ==
    \E v \in Values, g \in DtorBits(Full(a)) :
        \E r \in {emplace_front(a, Logged(heap), v, g)} :
            /\ a' = r.self
            /\ heap' = Storage(r.h)
            /\ dtors' = r.h.dtors
            /\ Called("emplace_front", v, Void)
            /\ pushed' = NoHistory
            /\ ref' = IF ref = NoHistory THEN NoHistory
                      ELSE RefPushFront(ref, a.max_capacity_, v)
            /\ UNCHANGED <<b, it, twin>>

PopFront ==
    \E g \in DtorBits(a.current_size_ > 0) :
        \E r \in {pop_front(a, Logged(heap), g)} :
            /\ a' = r.self
            /\ heap' = Storage(r.h)
            /\ dtors' = r.h.dtors
            /\ Called("pop_front", Void, r.ret)
            /\ pushed' = NoHistory
            /\ ref' = NoHistory
            /\ UNCHANGED <<b, it, twin>>

PopBack ==
    \E g \in DtorBits(a.current_size_ > 0) :
        \E r \in {pop_back(a, Logged(heap), g)} :
            /\ a' = r.self
            /\ heap' = Storage(r.h)
            /\ dtors' = r.h.dtors
            /\ Called("pop_back", Void, r.ret)
            /\ pushed' = NoHistory
            /\ ref' = NoHistory
            /\ UNCHANGED <<b, it, twin>>

Clear ==
    \E g \in Garbage(a.current_size_) :
        \E r \in {clear(a, Logged(heap), g)} :
            /\ a' = r.self
            /\ heap' = Storage(r.h)
            /\ dtors' = r.h.dtors
            /\ Called("clear", Void, Void)
            /\ pushed' = NoHistory
            /\ ref' = NoHistory
            /\ UNCHANGED <<b, it, twin>>

At ==
    \E idx \in Indexes :
        /\ Called("at", idx, at(a, heap, idx))
        /\ dtors' = <<>>
        /\ UNCHANGED <<a, b, heap, pushed, ref, it, twin>>

\* a front() that takes the element out
FrontConsuming ==
    \E r \in {pop_front(a, Logged(heap), 1)} :
        /\ a' = r.self
        /\ heap' = Storage(r.h)
        /\ Called("front", Void, front(a, heap))
        /\ dtors' = <<>>
        /\ UNCHANGED <<b, pushed, ref, it, twin>>

Front ==
    /\ Called("front", Void, front(a, heap))
    /\ dtors' = <<>>
    /\ UNCHANGED <<a, b, heap, pushed, ref, it, twin>>

Back ==
    /\ Called("back", Void, back(a, heap))
    /\ dtors' = <<>>
    /\ UNCHANGED <<a, b, heap, pushed, ref, it, twin>>

Mutate ==
    \/ PushBack
    \/ EmplaceBack
    \/ PushFront
    \/ EmplaceFront
    \/ PopFront
    \/ PopBack
    \/ Clear

Next ==
    \/ Mutate
    \/ At
    \/ Front
    \/ Back

Spec == Init /\ [][Next]_vars

\* const auto b = a;
CopyConstruct ==
    /\ ~Constructed(b)
    /\ \E bits \in Garbage(a.max_capacity_), g \in DtorBits(FALSE) :
           \E r \in {ring_buffer_copy(a, Logged(heap), "B", bits, g)} :
               /\ b' = r.self
               /\ heap' = Storage(r.h)
               /\ dtors' = r.h.dtors
    /\ Called("copy", Void, Void)
    /\ UNCHANGED <<a, pushed, ref, it, twin>>

InitCopy == Init /\ capacity(a) <= MaxCopyCapacity

NextCopy ==
    \/ Mutate
    \/ CopyConstruct

SpecCopy == InitCopy /\ [][NextCopy]_vars

\* } : a goes out of scope
Destruct ==
    /\ Constructed(a)
    /\ \E r \in {ring_buffer_dtor(a, Logged(heap))} :
           /\ heap' = Storage(r)
           /\ dtors' = r.dtors
    /\ a' = NoObject
    /\ Called("~ring_buffer", capacity(a), Void)
    /\ pushed' = NoHistory
    /\ ref' = NoHistory
    /\ UNCHANGED <<b, it, twin>>

NextLifetime ==
    \/ Constructed(a) /\ Mutate
    \/ Destruct

SpecLifetime == Init /\ [][NextLifetime]_vars

\* ------------------------------------------------------- FIFO queue use
\* push_back(v) while there is room, so that nothing is evicted
FifoPushBack ==
    /\ size(a) < capacity(a)
    /\ PushBack

\* pop_front(); the reference queue loses its oldest value
FifoPopFront ==
    \E g \in DtorBits(a.current_size_ > 0) :
        \E r \in {pop_front(a, Logged(heap), g)} :
            /\ a' = r.self
            /\ heap' = Storage(r.h)
            /\ dtors' = r.h.dtors
            /\ Called("pop_front", Void, r.ret)
            /\ pushed' = NoHistory
            /\ ref' = IF Len(ref) = 0 THEN ref ELSE Tail(ref)
            /\ UNCHANGED <<b, it, twin>>

NextFifo ==
    \/ FifoPushBack
    \/ FifoPopFront
    \/ Front
    \/ Back

SpecFifo == Init /\ [][NextFifo]_vars

\* ------------------------------------------- every accepted capacity
NoSnapshot == [size |-> 0, begin_ptr_ |-> 0, end_ptr_ |-> 0, contents |-> <<>>]

\* ring_buffer<T> a(cap) for any capacity the constructor accepts; the raw
\* storage and every element hold the same bits, the calls are told apart by
\* the slots they address.  Pushes at both ends take the begin cursor to every
\* slot and the size to the capacity.
InitWide ==
    \E cap \in 0 .. SIZE_MAX :
        /\ ~ctor_throws(cap)
        /\ a = ring_buffer(cap, "A")
        /\ heap = [A |-> allocate(cap, [p \in Slots(cap) |-> 1]), B |-> <<>>]
        /\ b = NoObject
        /\ op = [name |-> "ring_buffer", arg |-> cap, ret |-> Void]
        /\ old = NoSnapshot
        /\ pushed = NoHistory
        /\ ref = NoHistory
        /\ dtors = <<>>
        /\ it = NoIterator
        /\ twin = Void

WideCalled(name, arg, ret, r) ==
    /\ a' = r.self
    /\ heap' = Storage(r.h)
    /\ dtors' = r.h.dtors
    /\ Called(name, arg, ret)
    /\ UNCHANGED <<b, pushed, ref, it, twin>>

WidePushBack ==
    \E r \in {push_back(a, Logged(heap), 1, 1)} :
        WideCalled("push_back", 1, Void, r)

WidePushFront ==
    \E r \in {push_front(a, Logged(heap), 1, 1)} :
        WideCalled("push_front", 1, Void, r)

WideAt ==
    \E idx \in 0 .. SIZE_MAX :
        /\ Called("at", idx, at(a, heap, idx))
        /\ dtors' = <<>>
        /\ UNCHANGED <<a, b, heap, pushed, ref, it, twin>>

NextWide ==
    \/ WidePushBack
    \/ WidePushFront
    \/ WideAt

SpecWide == InitWide /\ [][NextWide]_vars

\* ------------------------------------------- a cleared and a fresh buffer
\* a.clear(); ring_buffer<T> b(a.capacity());
ClearThenFresh ==
    /\ ~Constructed(b)
    /\ \E g \in Garbage(a.current_size_), bits \in Garbage(a.max_capacity_) :
           \E r \in {clear(a, Logged(heap), g)} :
               /\ a' = r.self
               /\ b' = ring_buffer(a.max_capacity_, "B")
               /\ heap' = [Storage(r.h) EXCEPT !.B = allocate(a.max_capacity_, bits)]
    /\ op' = [name |-> "clear", arg |-> Void, ret |-> Void]
    /\ twin' = Void
    /\ old' = NoSnapshot
    /\ dtors' = <<>>
    /\ pushed' = NoHistory
    /\ ref' = NoHistory
    /\ UNCHANGED it

\* the same call on a and on b; op.ret is a's answer, twin is b's
BothCalled(name, arg, ret_a, ret_b) ==
    /\ op' = [name |-> name, arg |-> arg, ret |-> ret_a]
    /\ twin' = ret_b
    /\ UNCHANGED <<old, dtors, pushed, ref, it>>

BothPushBack ==
    /\ Constructed(b)
    /\ \E v \in Values, ga \in DtorBits(Full(a)), gb \in DtorBits(Full(b)) :
           \E ra \in {push_back(a, Logged(heap), v, ga)} :
               \E rb \in {push_back(b, ra.h, v, gb)} :
                   /\ a' = ra.self
                   /\ b' = rb.self
                   /\ heap' = Storage(rb.h)
                   /\ BothCalled("push_back", v, Void, Void)

BothPushFront ==
    /\ Constructed(b)
    /\ \E v \in Values, ga \in DtorBits(Full(a)), gb \in DtorBits(Full(b)) :
           \E ra \in {push_front(a, Logged(heap), v, ga)} :
               \E rb \in {push_front(b, ra.h, v, gb)} :
                   /\ a' = ra.self
                   /\ b' = rb.self
                   /\ heap' = Storage(rb.h)
                   /\ BothCalled("push_front", v, Void, Void)

BothPopFront ==
    /\ Constructed(b)
    /\ \E ga \in DtorBits(a.current_size_ > 0), gb \in DtorBits(b.current_size_ > 0) :
           \E ra \in {pop_front(a, Logged(heap), ga)} :
               \E rb \in {pop_front(b, ra.h, gb)} :
                   /\ a' = ra.self
                   /\ b' = rb.self
                   /\ heap' = Storage(rb.h)
                   /\ BothCalled("pop_front", Void, ra.ret, rb.ret)

BothPopBack ==
    /\ Constructed(b)
    /\ \E ga \in DtorBits(a.current_size_ > 0), gb \in DtorBits(b.current_size_ > 0) :
           \E ra \in {pop_back(a, Logged(heap), ga)} :
               \E rb \in {pop_back(b, ra.h, gb)} :
                   /\ a' = ra.self
                   /\ b' = rb.self
                   /\ heap' = Storage(rb.h)
                   /\ BothCalled("pop_back", Void, ra.ret, rb.ret)

BothAt ==
    /\ Constructed(b)
    /\ \E idx \in Indexes :
           BothCalled("at", idx, at(a, heap, idx), at(b, heap, idx))
    /\ UNCHANGED <<a, b, heap>>

BothFront ==
    /\ Constructed(b)
    /\ BothCalled("front", Void, front(a, heap), front(b, heap))
    /\ UNCHANGED <<a, b, heap>>

BothBack ==
    /\ Constructed(b)
    /\ BothCalled("back", Void, back(a, heap), back(b, heap))
    /\ UNCHANGED <<a, b, heap>>

BothSize ==
    /\ Constructed(b)
    /\ BothCalled("size", Void, size(a), size(b))
    /\ UNCHANGED <<a, b, heap>>

InitTwin == Init /\ capacity(a) <= MaxTwinCapacity

NextTwin ==
    \/ ~Constructed(b) /\ Mutate
    \/ ClearThenFresh
    \/ BothPushBack
    \/ BothPushFront
    \/ BothPopFront
    \/ BothPopBack
    \/ BothAt
    \/ BothFront
    \/ BothBack
    \/ BothSize

SpecTwin == InitTwin /\ [][NextTwin]_vars

\* ------------------------------------------------------- construction use
\* ring_buffer<T> a(max_capacity): the capacity checks throw, or the
\* allocation fails, or the object is built on raw storage
Construct ==
    /\ ~Constructed(a)
    /\ \E max_capacity \in 0 .. SIZE_MAX :
           IF ctor_throws(max_capacity)
           THEN /\ op' = [name |-> "ring_buffer", arg |-> max_capacity,
                          ret |-> "runtime_error"]
                /\ UNCHANGED <<a, heap>>
           ELSE \/ /\ op' = [name |-> "ring_buffer", arg |-> max_capacity,
                             ret |-> "allocation_failure"]
                   /\ UNCHANGED <<a, heap>>
                \/ \E bits \in Garbage(max_capacity) :
                       /\ a' = ring_buffer(max_capacity, "A")
                       /\ heap' = [heap EXCEPT !.A = allocate(max_capacity, bits)]
                       /\ op' = [name |-> "ring_buffer", arg |-> max_capacity,
                                 ret |-> Void]
    /\ dtors' = <<>>
    /\ UNCHANGED <<b, old, pushed, ref, it, twin>>

InitCtor ==
    /\ a = NoObject
    /\ b = NoObject
    /\ heap = [A |-> <<>>, B |-> <<>>]
    /\ op = [name |-> "main", arg |-> Void, ret |-> Void]
    /\ old = [size |-> 0, begin_ptr_ |-> 0, end_ptr_ |-> 0, contents |-> <<>>]
    /\ pushed = <<>>
    /\ ref = <<>>
    /\ dtors = <<>>
    /\ it = NoIterator
    /\ twin = Void

NextCtor ==
    \/ Construct
    \/ Destruct

SpecCtor == InitCtor /\ [][NextCtor]_vars

\* ---------------------------------------------------------- iterator use
\* auto it = a.begin();
Begin ==
    /\ it' = begin(a)
    /\ Called("begin", Void, Void)
    /\ dtors' = <<>>
    /\ UNCHANGED <<a, b, heap, pushed, ref, twin>>

\* auto it = a.end();
End ==
    /\ it' = end(a)
    /\ Called("end", Void, Void)
    /\ dtors' = <<>>
    /\ UNCHANGED <<a, b, heap, pushed, ref, twin>>

\* ++it; the call records the index it started from
Increment ==
    /\ it # NoIterator
    /\ it' = operator_incr(a, it)
    /\ Called("operator++", it.idx_, Void)
    /\ dtors' = <<>>
    /\ UNCHANGED <<a, b, heap, pushed, ref, twin>>

\* --it
Decrement ==
    /\ it # NoIterator
    /\ it' = operator_decr(a, it)
    /\ Called("operator--", it.idx_, Void)
    /\ dtors' = <<>>
    /\ UNCHANGED <<a, b, heap, pushed, ref, twin>>

\* *it
Star ==
    /\ it # NoIterator
    /\ Called("operator*", it.idx_, operator_star(a, heap, it))
    /\ dtors' = <<>>
    /\ UNCHANGED <<a, b, heap, pushed, ref, it, twin>>

\* it.operator->()
Arrow ==
    /\ it # NoIterator
    /\ Called("operator->", it.idx_, operator_arrow(a, it))
    /\ dtors' = <<>>
    /\ UNCHANGED <<a, b, heap, pushed, ref, it, twin>>

\* std::vector<int> vec(a.begin(), a.end());
Traverse ==
    /\ Called("traverse", "begin",
              copy_range(a, heap, begin(a), end(a), <<>>, MaxTraversal))
    /\ dtors' = <<>>
    /\ UNCHANGED <<a, b, heap, pushed, ref, it, twin>>

\* std::equal(a.cbegin(), a.cend(), ...)
TraverseConst ==
    /\ Called("traverse", "cbegin",
              copy_range(a, heap, cbegin(a), cend(a), <<>>, MaxTraversal))
    /\ dtors' = <<>>
    /\ UNCHANGED <<a, b, heap, pushed, ref, it, twin>>

InitIter == Init /\ capacity(a) <= MaxIterCapacity

NextIter ==
    \/ Mutate
    \/ Begin
    \/ End
    \/ Increment
    \/ Decrement
    \/ Star
    \/ Arrow
    \/ Traverse
    \/ TraverseConst

SpecIter == InitIter /\ [][NextIter]_vars

\* ------------------------------------------------- every reading call
\* a[idx]
Subscript ==
    \E idx \in Indexes :
        /\ Called("operator[]", idx, subscript(a, heap, idx))
        /\ dtors' = <<>>
        /\ UNCHANGED <<a, b, heap, pushed, ref, it, twin>>

Size ==
    /\ Called("size", Void, size(a))
    /\ dtors' = <<>>
    /\ UNCHANGED <<a, b, heap, pushed, ref, it, twin>>

Capacity ==
    /\ Called("capacity", Void, capacity(a))
    /\ dtors' = <<>>
    /\ UNCHANGED <<a, b, heap, pushed, ref, it, twin>>

\* auto it = a.cbegin();
CBegin ==
    /\ it' = cbegin(a)
    /\ Called("cbegin", Void, Void)
    /\ dtors' = <<>>
    /\ UNCHANGED <<a, b, heap, pushed, ref, twin>>

\* auto it = a.cend();
CEnd ==
    /\ it' = cend(a)
    /\ Called("cend", Void, Void)
    /\ dtors' = <<>>
    /\ UNCHANGED <<a, b, heap, pushed, ref, twin>>

NextRead ==
    \/ PushBack
    \/ PushFront
    \/ PopFront
    \/ PopBack
    \/ Clear
    \/ Begin
    \/ End
    \/ Increment
    \/ Decrement
    \/ Star
    \/ Arrow
    \/ Traverse
    \/ TraverseConst
    \/ At
    \/ Subscript
    \/ Front
    \/ Back
    \/ Size
    \/ Capacity
    \/ CBegin
    \/ CEnd

SpecRead == InitIter /\ [][NextRead]_vars

\* ================================================================ claims
OldContents == old.contents
NewContents == Contents(a, heap)

\* C1: in every state reachable from construction by any sequence of pushes,
\* emplaces, pops and clears, 0 <= size() <= capacity().
C1_SizeWithinCapacity ==
    /\ 0 <= size(a)
    /\ size(a) <= capacity(a)

\* a push_back on a full buffer of capacity >= 2 has just evicted
C1_Witness ==
    /\ op.name = "push_back"
    /\ capacity(a) >= 2
    /\ old.size = capacity(a)
    /\ size(a) = capacity(a)

\* C2: after n consecutive push_back calls on a fresh buffer of capacity C,
\* size() = min(n, C) and at(i) = v(n - min(n, C) + 1 + i) for every i < size().
C2_PushBackRun ==
    pushed # NoHistory =>
        LET n == Len(pushed)
            m == Min(n, capacity(a))
        IN  /\ size(a) = m
            /\ \A i \in 0 .. (m - 1) : at(a, heap, i) = pushed[n - m + 1 + i]

\* more pushes than slots: the oldest values are gone
C2_Witness ==
    /\ pushed # NoHistory
    /\ capacity(a) >= 2
    /\ Len(pushed) >= capacity(a) + 2
    /\ pushed[1] # pushed[Len(pushed)]

\* C3: in every reachable state push_back(v) inserts v at the logical back:
\* back() = v, size() = min(old size + 1, capacity), and every element that
\* was not evicted keeps its relative order (position i stays i when the
\* buffer was not full, becomes i - 1 when it was full).
C3_PushBackInsertsAtBack ==
    op.name = "push_back" =>
        LET n0 == old.size
        IN  /\ back(a, heap) = op.arg
            /\ size(a) = Min(n0 + 1, capacity(a))
            /\ IF n0 < capacity(a)
               THEN \A i \in 1 .. n0 : NewContents[i] = OldContents[i]
               ELSE \A i \in 2 .. n0 : NewContents[i - 1] = OldContents[i]

\* C4: with size() >= 1, pop_front() returns true, decreases size() by one and
\* removes exactly the front element (new at(i) = old at(i + 1)); pop_back()
\* returns true, decreases size() by one and removes exactly the back element
\* (new at(i) = old at(i)).
C4_PopRemovesOneEnd ==
    /\ (op.name = "pop_front" /\ old.size >= 1) =>
           /\ op.ret = TRUE
           /\ size(a) = old.size - 1
           /\ \A i \in 1 .. size(a) : NewContents[i] = OldContents[i + 1]
    /\ (op.name = "pop_back" /\ old.size >= 1) =>
           /\ op.ret = TRUE
           /\ size(a) = old.size - 1
           /\ \A i \in 1 .. size(a) : NewContents[i] = OldContents[i]

\* C5: for any sequence of push_back / emplace_back / push_front /
\* emplace_front calls on a fresh buffer, at(0 .. size() - 1) equals the
\* contents of a reference bounded deque that drops the opposite end when
\* full; for capacity 10, alternating push_front(2i), push_back(2i + 1),
\* i = 0 .. 4, gives [8,6,4,2,0,1,3,5,7,9].
C5_MatchesReferenceDeque ==
    /\ ref # NoHistory => NewContents = ref
    /\ Interleaved10 = <<8, 6, 4, 2, 0, 1, 3, 5, 7, 9>>

\* a push_front in a push-only history has just evicted the back
C5_Witness ==
    /\ ref # NoHistory
    /\ op.name = "push_front"
    /\ capacity(a) >= 2
    /\ old.size = capacity(a)
    /\ ref[1] # ref[2]

\* C6: in every reachable state push_front(v) inserts v at the logical front:
\* at(0) = v, size() = min(old size + 1, capacity), new at(i + 1) = old at(i)
\* for every old position that still fits; on a full buffer only the old back
\* element is evicted.
C6_PushFrontInsertsAtFront ==
    op.name = "push_front" =>
        LET n0 == old.size
            kept == Min(n0, capacity(a) - 1)
        IN  /\ at(a, heap, 0) = op.arg
            /\ size(a) = Min(n0 + 1, capacity(a))
            /\ \A i \in 1 .. kept : NewContents[i + 1] = OldContents[i]

\* C7: at(idx) and operator[](idx) fail with the bounds error if and only if
\* idx >= size().
C7_AtFailsIffOutOfRange ==
    op.name = "at" =>
        /\ (op.ret = BoundsError) <=> (op.arg >= size(a))
        /\ subscript(a, heap, op.arg) = op.ret
        /\ op.arg < size(a) =>
               op.ret = heap[a.buffer_][(a.begin_ptr_ + op.arg) % capacity(a)].val

\* the first index out of range on a non-empty buffer was refused
C7_Witness ==
    /\ op.name = "at"
    /\ size(a) >= 1
    /\ op.arg = size(a)
    /\ op.ret = BoundsError

\* C8: front() behaves as at(0) and back() as at(size() - 1) when size() >= 1;
\* both fail with the bounds error when size() = 0.
C8_FrontBack ==
    /\ op.name = "front" =>
           op.ret = IF size(a) = 0 THEN BoundsError ELSE at(a, heap, 0)
    /\ op.name = "back" =>
           op.ret = IF size(a) = 0 THEN BoundsError ELSE at(a, heap, size(a) - 1)
    /\ (op.name \in {"front", "back"} /\ size(a) >= 1) => op.ret # BoundsError

\* back() answered on a buffer holding at least two elements
C8_Witness ==
    /\ op.name = "back"
    /\ size(a) >= 2
    /\ op.ret # BoundsError
    /\ at(a, heap, 0) # op.ret

\* C9: when size() = 0, pop_front() and pop_back() return false and leave the
\* size, both cursors and every storage slot unchanged.
C9_PopOnEmpty ==
    [][ (size(a) = 0 /\ op'.name \in {"pop_front", "pop_back"}) =>
            /\ op'.ret = FALSE
            /\ a' = a
            /\ heap' = heap ]_vars

\* pop_back() on a buffer emptied by pop_front(), its cursors apart
C9_Witness ==
    /\ op.name = "pop_back"
    /\ old.size = 0
    /\ old.begin_ptr_ # old.end_ptr_
    /\ op.ret = FALSE

Mutators ==
    {"push_back", "emplace_back", "push_front", "emplace_front",
     "pop_front", "pop_back", "clear"}

\* C10: a copy b constructed from a has the capacity and size of a and
\* b.at(i) = a.at(i) for every i < size, whatever a's begin slot is; no later
\* push, pop or clear of a changes b's size or contents.
C10_CopyEqualAndIndependent ==
    [][ /\ op'.name = "copy" =>
               /\ capacity(b') = capacity(a')
               /\ size(b') = size(a')
               /\ \A i \in 0 .. (size(a') - 1) :
                      at(b', heap', i) = at(a', heap', i)
               /\ b'.buffer_ # a'.buffer_
        /\ (Constructed(b) /\ op'.name \in Mutators) =>
               /\ capacity(b') = capacity(b)
               /\ size(b') = size(b)
               /\ Contents(b', heap') = Contents(b, heap) ]_vars

\* a, copied while holding two elements, has since been changed by pop_front()
C10_Witness ==
    /\ Constructed(b)
    /\ size(b) = 2
    /\ op.name = "pop_front"
    /\ op.ret = TRUE
    /\ Contents(a, heap) # Contents(b, heap)

\* C11: clear() leaves size() = 0 with the begin cursor and the end cursor both
\* at physical slot 0; every at(idx), front() and back() then fails, and keeps
\* failing across pops, which change nothing, until the next push.
C11_ClearEmpties ==
    op.name = "clear" =>
        /\ size(a) = 0
        /\ a.begin_ptr_ = 0
        /\ a.end_ptr_ = 0
        /\ \A idx \in Indexes : at(a, heap, idx) = BoundsError
        /\ front(a, heap) = BoundsError
        /\ back(a, heap) = BoundsError
        /\ pop_front(a, Logged(heap), 1).self = a
        /\ pop_back(a, Logged(heap), 1).self = a

\* clear() on a buffer holding two elements whose front was not at slot 0
C11_Witness ==
    /\ op.name = "clear"
    /\ old.size >= 2
    /\ old.begin_ptr_ # 0
    /\ size(a) = 0

\* C12: a buffer that has just been cleared and a freshly constructed buffer
\* of the same capacity, given the same sequence of push, pop, at, front, back
\* and size calls, return the same values and errors and have the same size
\* and cursor positions at every step, whatever the cleared buffer's history.
C12_ClearedLikeFresh ==
    Constructed(b) =>
        /\ op.ret = twin
        /\ size(a) = size(b)
        /\ a.begin_ptr_ = b.begin_ptr_
        /\ a.end_ptr_ = b.end_ptr_

\* physical slot of logical position i (from 0) when the last call started
OldSlot(i) == (old.begin_ptr_ + i) % capacity(a)

\* the slots of the elements that the last call removes from the buffer
Leaving ==
    CASE op.name \in {"pop_front"} /\ old.size >= 1 -> {OldSlot(0)}
      [] op.name \in {"pop_back"} /\ old.size >= 1 -> {OldSlot(old.size - 1)}
      [] op.name = "clear" -> {OldSlot(i) : i \in 0 .. (old.size - 1)}
      [] op.name \in {"push_back", "emplace_back"} /\ old.size = capacity(a) ->
             {OldSlot(0)}
      [] op.name \in {"push_front", "emplace_front"} /\ old.size = capacity(a) ->
             {OldSlot(old.size - 1)}
      [] OTHER -> {}

\* C13: every element that leaves the buffer through an eviction, pop_front,
\* pop_back or clear is destroyed exactly once by that call, and the call
\* destroys nothing else: its destructor runs are one per leaving element, each
\* on a slot where an element was alive; three emplace_back calls on a
\* capacity-2 buffer run exactly one element destructor.
C13_LeavingDestroyedOnce ==
    /\ op.name \in Mutators =>
           /\ {dtors[i].ptr : i \in 1 .. Len(dtors)} = Leaving
           /\ Len(dtors) = Cardinality(Leaving)
           /\ \A i \in 1 .. Len(dtors) : dtors[i].live
    /\ Len(EmplacedThrice) = 1

\* C14: when the container is destroyed, every element still in it is
\* destroyed exactly once, front to back, and then the storage region is
\* deallocated: the destructor runs of ~ring_buffer() are the logical positions
\* 0 .. size - 1 in order, each on a live element, and the region is gone.
C14_DestructorDestroysElements ==
    op.name = "~ring_buffer" =>
        /\ dtors = [i \in 1 .. old.size |->
                        [ptr |-> (old.begin_ptr_ + i - 1) % op.arg, live |-> TRUE]]
        /\ heap.A = <<>>

\* C15: operator* on an iterator at logical index i fails with the bounds
\* error if and only if i >= size() at that moment, and otherwise yields the
\* element at(i); *end() fails on every buffer, empty or not.
C15_StarFailsIffOutOfRange ==
    /\ op.name = "operator*" =>
           /\ (op.ret = BoundsError) <=> (it.idx_ >= size(a))
           /\ it.idx_ < size(a) => op.ret = Contents(a, heap)[it.idx_ + 1]
    /\ operator_star(a, heap, end(a)) = BoundsError

\* the end iterator of a non-empty buffer was dereferenced and refused
C15_Witness ==
    /\ op.name = "operator*"
    /\ size(a) >= 1
    /\ operator_eq(it, end(a))
    /\ op.ret = BoundsError

\* C16: operator-> on an iterator whose logical index is >= size() fails with
\* the bounds error, as at() does, instead of yielding a pointer to a slot.
C16_ArrowFailsOutOfRange ==
    (op.name = "operator->" /\ it.idx_ >= size(a)) => op.ret = BoundsError

RECURSIVE Incremented(_, _, _)
Incremented(self, x, n) ==
    IF n = 0 THEN x ELSE Incremented(self, operator_incr(self, x), n - 1)

RECURSIVE Decremented(_, _, _)
Decremented(self, x, n) ==
    IF n = 0 THEN x ELSE Decremented(self, operator_decr(self, x), n - 1)

\* C17: on an unchanged buffer, ++ moves an iterator at index i <= size() to
\* min(i + 1, size()) and -- moves it to max(i - 1, 0); size() increments of
\* begin() equal end(), size() decrements of end() equal begin(), ++end()
\* equals end() and --begin() equals begin().
C17_IncrementDecrementClamp ==
    /\ (op.name = "operator++" /\ op.arg <= size(a)) =>
           it.idx_ = Min(op.arg + 1, size(a))
    /\ (op.name = "operator--" /\ op.arg <= size(a)) =>
           it.idx_ = IF op.arg = 0 THEN 0 ELSE op.arg - 1
    /\ operator_eq(Incremented(a, begin(a), size(a)), end(a))
    /\ operator_eq(Decremented(a, end(a), size(a)), begin(a))
    /\ operator_eq(operator_incr(a, end(a)), end(a))
    /\ operator_eq(operator_decr(a, begin(a)), begin(a))

\* the end iterator of a buffer holding two elements was incremented
C17_Witness ==
    /\ op.name = "operator++"
    /\ size(a) = 2
    /\ op.arg = size(a)
    /\ operator_eq(it, end(a))

\* C18: the traversal from begin() to end(), and from cbegin() to cend(), of
\* an unchanged buffer terminates after exactly size() steps and yields at(0),
\* at(1), ..., at(size() - 1) in that order.
C18_TraversalYieldsContents ==
    op.name = "traverse" =>
        /\ op.ret.terminated
        /\ Len(op.ret.out) = size(a)
        /\ \A i \in 0 .. (size(a) - 1) : op.ret.out[i + 1] = at(a, heap, i)

\* a full buffer whose front is not at slot 0 was traversed with const iterators
C18_Witness ==
    /\ op.name = "traverse"
    /\ op.arg = "cbegin"
    /\ size(a) = 2
    /\ a.begin_ptr_ # 0
    /\ op.ret.out[1] # op.ret.out[2]

\* C19: for every valid capacity C >= 1, immediately after construction
\* size() = 0 and capacity() = C, every at(idx) fails, and both cursors are at
\* physical slot 0.
C19_FreshBufferIsEmpty ==
    (op.name = "ring_buffer" /\ op.ret = Void) =>
        /\ op.arg >= 1
        /\ Constructed(a)
        /\ size(a) = 0
        /\ capacity(a) = op.arg
        /\ \A idx \in 0 .. SIZE_MAX : at(a, heap, idx) = BoundsError
        /\ a.begin_ptr_ = 0
        /\ a.end_ptr_ = 0

\* a buffer of a capacity above MaxCapacity was constructed
C19_Witness ==
    /\ op.name = "ring_buffer"
    /\ op.ret = Void
    /\ Constructed(a)
    /\ capacity(a) > MaxCapacity
    /\ size(a) = 0

\* C20: with w-bit indices, construction with capacity C fails with a
\* configuration error exactly when C = 0 or C > SIZE_MAX / 2; every C with
\* 1 <= C <= SIZE_MAX / 2, SIZE_MAX / 2 itself included, is accepted when the
\* allocation succeeds.
C20_CapacityLimit ==
    op.name = "ring_buffer" =>
        /\ (op.ret = "runtime_error") <=>
               (op.arg = 0 \/ op.arg > SIZE_MAX \div 2)
        /\ (1 <= op.arg /\ op.arg <= SIZE_MAX \div 2
               /\ op.ret # "allocation_failure") =>
               /\ Constructed(a)
               /\ capacity(a) = op.arg

\* C21: used as a FIFO queue (push_back while there is room, pop_front) on a
\* buffer of capacity >= 2, whenever size() >= 1 front() is the oldest pushed
\* value not yet popped and back() the most recently pushed one, also after
\* the queue has become empty and been refilled.
C21_FifoOrder ==
    capacity(a) >= 2 =>
        /\ size(a) = Len(ref)
        /\ size(a) >= 1 =>
               /\ front(a, heap) = Head(ref)
               /\ back(a, heap) = ref[Len(ref)]
        /\ (op.name = "front" /\ size(a) >= 1) => op.ret = Head(ref)
        /\ (op.name = "back" /\ size(a) >= 1) => op.ret = ref[Len(ref)]

\* C22: in every reachable state, if size() >= 1 the end cursor is the slot
\* (begin cursor + size() - 1) mod capacity, and if size() = 0 the end cursor
\* equals the begin cursor.
C22_CursorsConsistent ==
    IF size(a) >= 1
    THEN a.end_ptr_ = (a.begin_ptr_ + size(a) - 1) % capacity(a)
    ELSE a.end_ptr_ = a.begin_ptr_

\* C23: in every reachable state and for every idx < size(), the slot read by
\* at(idx) holds a live element: written by a push or emplace and not
\* destroyed since.
C23_ReadableSlotsLive ==
    \A idx \in 0 .. (size(a) - 1) :
        heap[a.buffer_][unchecked_ptr_from_idx(a, idx)].live

\* C24: in every reachable state, for every capacity C >= 1, the begin cursor
\* and the end cursor are slots in [0, C), every slot read by at() or written
\* by a push is in [0, C), advancing right from slot C - 1 gives slot 0 and
\* advancing left from slot 0 gives slot C - 1.
C24_CursorsInsideStorage ==
    /\ a.begin_ptr_ \in Slots(capacity(a))
    /\ a.end_ptr_ \in Slots(capacity(a))
    /\ DOMAIN heap[a.buffer_] = Slots(capacity(a))
    /\ \A idx \in 0 .. (size(a) - 1) :
           unchecked_ptr_from_idx(a, idx) \in Slots(capacity(a))
    /\ advance_ptr_right(a, capacity(a) - 1) = 0
    /\ advance_ptr_left(a, 0) = capacity(a) - 1
    /\ op.name \in {"push_back", "emplace_back"} =>
           heap[a.buffer_][a.end_ptr_] = Live(op.arg)
    /\ op.name \in {"push_front", "emplace_front"} =>
           heap[a.buffer_][a.begin_ptr_] = Live(op.arg)

\* a push_back whose end cursor stepped from the last slot round to slot 0
C24_Witness ==
    /\ op.name = "push_back"
    /\ capacity(a) >= 2
    /\ old.end_ptr_ = capacity(a) - 1
    /\ a.end_ptr_ = 0
    /\ size(a) >= 2

\* C25: for every capacity the constructor accepts, in every reachable state
\* and for every idx < size(), begin offset + idx does not wrap around 2^w, so
\* at(idx) addresses slot (begin offset + idx) mod capacity; size() + 1, as
\* computed by a push, does not wrap either.
C25_NoIndexWraparound ==
    /\ \A idx \in 0 .. (size(a) - 1) :
           /\ a.begin_ptr_ + idx < SizeMod
           /\ unchecked_ptr_from_idx(a, idx) = (a.begin_ptr_ + idx) % capacity(a)
    /\ size(a) + 1 < SizeMod
    /\ (op.name = "at" /\ op.arg < size(a)) =>
           op.ret = heap[a.buffer_][(a.begin_ptr_ + op.arg) % capacity(a)].val

\* the last element of a full buffer of the largest accepted capacity, its
\* front in the last slot, was read
C25_Witness ==
    /\ capacity(a) = (SIZE_MAX \div 2) - 1
    /\ size(a) = capacity(a)
    /\ a.begin_ptr_ = capacity(a) - 1
    /\ op.name = "at"
    /\ op.arg = size(a) - 1
    /\ op.ret # BoundsError

Readers ==
    {"size", "capacity", "at", "operator[]", "front", "back",
     "begin", "end", "cbegin", "cend",
     "operator++", "operator--", "operator*", "operator->", "traverse"}

\* C26: size(), capacity(), at(), operator[], front(), back(), begin(), end(),
\* cbegin(), cend() and every iterator step or dereference, failing or not,
\* leave the container's size, capacity, cursors and stored elements
\* unchanged; capacity() returns the capacity the buffer has, which no call
\* ever changes.
C26_ReadsChangeNothing ==
    [][ /\ op'.name \in Readers =>
               /\ a' = a
               /\ heap' = heap
        /\ capacity(a') = capacity(a)
        /\ op'.name = "capacity" => op'.ret = capacity(a) ]_vars

\* operator[] was refused on a non-empty buffer whose front is not at slot 0
C26_Witness ==
    /\ op.name = "operator[]"
    /\ op.ret = BoundsError
    /\ size(a) >= 1
    /\ a.begin_ptr_ # 0

====
